---- MODULE Spec2Model ----
(***************************************************************************)
(* A model of the LAPACK adaptation layer of lax: the general eigenvalue   *)
(* driver (eig.rs, *geev) and the least-squares driver (least_squares.rs,  *)
(* *gelsd).  The native kernels are external: every kernel invocation is a *)
(* nondeterministic choice of a status code and of the values written.     *)
(* Rust vectors are functions over 0..len-1, so indices are the source's.  *)
(***************************************************************************)
EXTENDS Integers, Sequences, FiniteSets, TLC

\* ------------------------------------------------------------------ bounds
MaxN == 3          \* eig: matrices are n x n with n in 1..MaxN
MaxWork == 2       \* a successful probe reports a work size in 1..MaxWork
MaxDim == 2        \* least squares: A is m x n with m, n in 1..MaxDim
MaxRhs == 2        \* least squares: B has 1..MaxRhs columns
MaxCalcs == 2      \* calc calls made on one LeastSquaresWork

\* ------------------------------------------------------- values and vectors
Cx(re, im) == [re |-> re, im |-> im]

Vec(len, x) == [i \in 0..(len - 1) |-> x]

VLen(vec) == Cardinality(DOMAIN vec)

\* no value: the Vec::new() of a result without eigenvectors
Empty == Vec(0, 0)

\* ------------------------------------------------------------ MatrixLayout
\* MatrixLayout::C { row, lda } is row-major, MatrixLayout::F { col, lda }
\* is column-major.
LayoutC(row, lda) == [kind |-> "C", row |-> row, lda |-> lda]

LayoutF(col, lda) == [kind |-> "F", col |-> col, lda |-> lda]

\* MatrixLayout::size: (rows, columns) of the logical matrix
size(l) == IF l.kind = "C" THEN <<l.row, l.lda>> ELSE <<l.lda, l.col>>

Min(x, y) == IF x < y THEN x ELSE y

Max(x, y) == IF x < y THEN y ELSE x

SquareLayouts == {LayoutC(k, k) : k \in 1..MaxN} \cup {LayoutF(k, k) : k \in 1..MaxN}

\* --------------------------------------------------------------- the kernel
\* info < 0: illegal argument, info = 0: success, info > 0: computational
\* failure.
KernelStatus == {-1, 0, 1}

WorkSizes == 1..MaxWork

\* i32 -> Result: Ok for 0, an error carrying the code otherwise
as_lapack_result(info) == IF info = 0 THEN "Ok" ELSE "Err"

\* What *geev writes on success.  Real scalars: wr, wi are the two parallel
\* eigenvalue arrays and v the n*n real eigenvector block (written into vl
\* or vr, whichever was requested).  The block written has pairwise distinct
\* non-zero entries of either sign, so that any change of index or of sign
\* in the reconstruction is visible.
ImVals == {-1, 0, 1}

Signs == {-1, 1}

\* real parts in ascending or in descending order
RealParts(k) == {[i \in 0..(k - 1) |-> i + 1], [i \in 0..(k - 1) |-> k - i]}

\* eigenvalues of a complex matrix: no two equal, no conjugate pairs
ComplexEigs(k) ==
    {[i \in 0..(k - 1) |-> Cx(wr[i], s * (i + 1))] : wr \in RealParts(k), s \in Signs}

RealBlock(k, s) == [i \in 0..(k * k - 1) |-> s * (i + 1)]

ComplexBlock(k, s, t) == [i \in 0..(k * k - 1) |-> Cx(s * (i + 1), t * (i + 2))]

GeevRealOut(k) ==
    { [wr |-> wr, wi |-> wi, v |-> RealBlock(k, s)] :
        wr \in RealParts(k), wi \in [0..(k - 1) -> ImVals], s \in Signs }

GeevComplexOut(k) ==
    { [w |-> w, v |-> ComplexBlock(k, s, t)] :
        w \in ComplexEigs(k), s \in Signs, t \in Signs }

\* -------------------------------------------------------------------- state
VARIABLES
    pc,         \* position of the running operation
    scalar,     \* "real" (f32, f64) or "complex" (c32, c64)
    calc_v,     \* eig argument
    l,          \* eig argument: the caller's MatrixLayout
    n,          \* eig: let (n, _) = l.size()
    jobvl,      \* eig: JobEv handed to the kernel for the left eigenvectors
    jobvr,      \* eig: JobEv handed to the kernel for the right eigenvectors
    info,       \* status written by the last kernel invocation
    work_size,  \* eig: work_size[0], the slot the probe writes
    work,       \* eig: length of the scratch vector, -1 while not allocated
    eig_re,     \* eig, real: kernel output array (real parts)
    eig_im,     \* eig, real: kernel output array (imaginary parts)
    eigs,       \* eig: complex eigenvalues (kernel output for complex scalars)
    vl,         \* eig: Option<Vec>: [some, init, data]
    vr,         \* eig: Option<Vec>: [some, init, data]
    eigvecs,    \* eig, real: the reconstructed block
    written,    \* eig, real: number of writes to each element of eigvecs
    col,        \* eig, real: the scan's column index
    scanned,    \* eig, real: [j |-> "real" | "pair"] for the columns the scan visited
    accessed,   \* eig, real: column indices the scan read from v or wrote in eigvecs
    iwork_size, \* least squares: iwork_size[0], written by the probe
    rwork_size, \* least squares, complex: rwork[0], written by the probe
    lsw,        \* least squares: the LeastSquaresWork (self)
    a,          \* least squares: the caller's a buffer
    b,          \* least squares: the caller's b buffer
    a_t,        \* least squares: Option<Vec>, the transposed copy of a
    b_t,        \* least squares: Option<Vec>, the transposed copy of b
    rank,       \* least squares: the rank the kernel wrote
    ncalc,      \* least squares: calc calls started on the work object
    by_eval,    \* least squares: the running calc was entered through eval
    calls,      \* the kernel invocations, in order, of the running (or last)
                \* eig or calc call and of the new that built the work object
    allocs,     \* lengths of the scratch vectors allocated after a probe, in order
    ret         \* what the operation returned to its caller

eigVars == <<calc_v, l, n, jobvl, jobvr, work, eig_re, eig_im, eigs,
             vl, vr, eigvecs, written, col, scanned, accessed>>

lsVars == <<iwork_size, rwork_size, lsw, a, b, a_t, b_t, rank, ncalc, by_eval>>

vars == <<pc, scalar, info, work_size, calls, allocs, ret, eigVars, lsVars>>

NoRet ==
    [kind |-> "none", code |-> 0, panic |-> "none", eigs |-> Empty, vecs |-> Empty,
     singular_values |-> Empty, rank |-> 0]

RetErr(code) == [NoRet EXCEPT !.kind = "Err", !.code = code]

RetPanic(what) == [NoRet EXCEPT !.kind = "panic", !.panic = what]

RetOk(e, v) == [NoRet EXCEPT !.kind = "Ok", !.eigs = e, !.vecs = v]

\* Ok(LeastSquaresRef { .. }) and Ok(LeastSquaresOwned { .. })
RetLs(sv, r) == [NoRet EXCEPT !.kind = "Ok", !.singular_values = sv, !.rank = r]

\* init: the kernel has written the elements
None == [some |-> FALSE, init |-> FALSE, data |-> Empty]

\* Option<Vec<MaybeUninit<T>>> holding len elements not yet written
SomeUninit(len, x) == [some |-> TRUE, init |-> FALSE, data |-> Vec(len, x)]

\* the fields of LeastSquaresWork; work, iwork and rwork are the lengths of
\* vectors whose elements only the kernel touches
NoWork ==
    [a_layout |-> LayoutF(1, 1), b_layout |-> LayoutF(1, 1),
     singular_values |-> [init |-> FALSE, data |-> Empty],
     work |-> 0, iwork |-> 0, rwork |-> [some |-> FALSE, len |-> 0]]

Init ==
    /\ pc = "idle"
    /\ scalar = "real"
    /\ calc_v = FALSE
    /\ l = LayoutF(1, 1)
    /\ n = 0
    /\ jobvl = "Not"
    /\ jobvr = "Not"
    /\ info = 0
    /\ work_size = 0
    /\ work = -1
    /\ eig_re = Empty
    /\ eig_im = Empty
    /\ eigs = Empty
    /\ vl = None
    /\ vr = None
    /\ eigvecs = Empty
    /\ written = Empty
    /\ col = 0
    /\ scanned = Empty
    /\ accessed = {}
    /\ calls = <<>>
    /\ allocs = <<>>
    /\ ret = NoRet
    /\ iwork_size = 0
    /\ rwork_size = 0
    /\ lsw = NoWork
    /\ a = Empty
    /\ b = Empty
    /\ a_t = None
    /\ b_t = None
    /\ rank = 0
    /\ ncalc = 0
    /\ by_eval = FALSE

\* faulty variant: the two layouts exchanged
EigJobs_mut(cv, lay) ==
    IF cv
    THEN IF lay.kind = "F" THEN <<"Calc", "Not">> ELSE <<"Not", "Calc">>
    ELSE <<"Not", "Not">>
\* ---------------------------------------------------------------------- eig
\* The job flags: left eigenvectors for a row-major input, right ones for a
\* column-major input, none without calc_v.
EigJobs(cv, lay) ==
    IF cv
    THEN IF lay.kind = "C" THEN <<"Calc", "Not">> ELSE <<"Not", "Calc">>
    ELSE <<"Not", "Not">>

\* JobEv::then: the eigenvector buffer exists only when requested
EigVecBuffer(job, k, x) == IF job = "Calc" THEN SomeUninit(k * k, x) ELSE None

\* entry of eig up to the first kernel call: flags and output buffers
EigEnter(s, cv, lay) ==
    /\ pc = "idle"
    /\ pc' = "eig_probe"
    /\ scalar' = s
    /\ calc_v' = cv
    /\ l' = lay
    /\ n' = size(lay)[1]
    /\ jobvl' = EigJobs(cv, lay)[1]
    /\ jobvr' = EigJobs(cv, lay)[2]
    /\ LET k == size(lay)[1]
           zero == IF s = "real" THEN 0 ELSE Cx(0, 0)
       IN /\ eig_re' = IF s = "real" THEN Vec(k, 0) ELSE Empty
          /\ eig_im' = IF s = "real" THEN Vec(k, 0) ELSE Empty
          /\ eigs' = IF s = "real" THEN Empty ELSE Vec(k, zero)
          /\ vl' = EigVecBuffer(EigJobs(cv, lay)[1], k, zero)
          /\ vr' = EigVecBuffer(EigJobs(cv, lay)[2], k, zero)
    /\ UNCHANGED <<info, work_size, work, eigvecs, written, col, scanned, accessed,
                   calls, allocs, ret, lsVars>>

\* a kernel invocation as the kernel sees it
GeevCall(phase, lwork, status, out) ==
    [fn |-> "geev", phase |-> phase, jobvl |-> jobvl, jobvr |-> jobvr, n |-> n,
     lwork |-> lwork, info |-> status, out |-> out]

\* faulty variant: the status of the probe is not looked at
EigProbeOk_mut(status) == TRUE
\* info.as_lapack_result()? after the probe: TRUE when eig goes on
EigProbeOk(status) == as_lapack_result(status) = "Ok"

\* the probe: work length -1, the size comes back in work_size[0]
EigProbe ==
    /\ pc = "eig_probe"
    /\ \E status \in KernelStatus, ws \in WorkSizes :
        /\ calls' = Append(calls, GeevCall("probe", -1, status,
                                           IF status = 0 THEN ws ELSE 0))
        /\ info' = status
        /\ work_size' = IF status = 0 THEN ws ELSE work_size
        /\ IF EigProbeOk(status)
           THEN pc' = "eig_alloc" /\ ret' = ret
           ELSE pc' = "done" /\ ret' = RetErr(status)
    /\ UNCHANGED <<scalar, allocs, calc_v, l, n, jobvl, jobvr, work, eig_re, eig_im,
                   eigs, vl, vr, eigvecs, written, col, scanned, accessed, lsVars>>

\* faulty variant: one element more than the probe asked for
EigLwork_mut(ws) == ws + 1
\* let lwork = work_size[0].to_usize().unwrap()
EigLwork(ws) == ws

\* the scratch vector is allocated with the probed length
EigAlloc ==
    /\ pc = "eig_alloc"
    /\ work' = EigLwork(work_size)
    /\ allocs' = Append(allocs, EigLwork(work_size))
    /\ pc' = "eig_exec"
    /\ UNCHANGED <<scalar, info, calls, ret, calc_v, l, n, jobvl, jobvr, work_size,
                   eig_re, eig_im, eigs, vl, vr, eigvecs, written, col, scanned,
                   accessed, lsVars>>

\* let lwork = lwork as i32: the declared work length of the execute call
EigExecLwork(len) == len

\* kernel output landing in the eigenvector buffer that was requested
KernelFill(buf, data) ==
    IF buf.some THEN [buf EXCEPT !.data = data, !.init = TRUE] ELSE buf

\* faulty variant: the status of the execute call is not looked at
EigExecOk_mut(status) == TRUE

\* info.as_lapack_result()? after the execute call: TRUE when eig goes on
EigExecOk(status) == as_lapack_result(status) = "Ok"

\* the execute call and its status check
EigExecute ==
    /\ pc = "eig_exec"
    /\ \E status \in KernelStatus :
       \E out \in IF scalar = "real" THEN GeevRealOut(n) ELSE GeevComplexOut(n) :
        /\ calls' = Append(calls, GeevCall("exec", EigExecLwork(work), status,
                                           IF status = 0 THEN out ELSE Empty))
        /\ info' = status
        /\ IF status = 0
           THEN /\ eig_re' = IF scalar = "real" THEN out.wr ELSE eig_re
                /\ eig_im' = IF scalar = "real" THEN out.wi ELSE eig_im
                /\ eigs' = IF scalar = "real" THEN eigs ELSE out.w
                /\ vl' = KernelFill(vl, out.v)
                /\ vr' = KernelFill(vr, out.v)
           ELSE UNCHANGED <<eig_re, eig_im, eigs, vl, vr>>
        /\ IF EigExecOk(status)
           THEN pc' = "eig_post" /\ ret' = ret
           ELSE pc' = "done" /\ ret' = RetErr(status)
    /\ UNCHANGED <<scalar, allocs, calc_v, l, n, jobvl, jobvr, work_size, work,
                   eigvecs, written, col, scanned, accessed, lsVars>>

\* Option::or
OptOr(x, y) == IF x.some THEN x ELSE y

\* faulty variant: the left eigenvectors are returned as the kernel wrote them
EigC_Conj_mut(job, buf) == buf
\* complex scalars: "Hermite conjugate" of the left eigenvectors, in place
EigC_Conj(job, buf) ==
    IF job = "Calc"
    THEN [buf EXCEPT !.data = [i \in DOMAIN buf.data |->
                                  Cx(buf.data[i].re, -buf.data[i].im)]]
    ELSE buf

\* complex scalars: the part of eig after the execute call
EigC_Return ==
    /\ pc = "eig_post"
    /\ scalar = "complex"
    /\ vr' = vr
    /\ vl' = EigC_Conj(jobvl, vl)
    /\ ret' = RetOk(eigs, OptOr(vr', vl').data)
    /\ pc' = "done"
    /\ UNCHANGED <<scalar, info, calls, allocs, calc_v, l, n, jobvl, jobvr, work_size,
                   work, eig_re, eig_im, eigs, eigvecs, written, col, scanned,
                   accessed, lsVars>>

\* faulty variant: the eigenvalues are conjugated
EigR_Eigs_mut(re, im) ==
    [i \in (DOMAIN re) \cap (DOMAIN im) |-> Cx(re[i], -im[i])]
\* real scalars: "reconstruct eigenvalues", the zip of the two arrays
EigR_Eigs(re, im) ==
    [i \in (DOMAIN re) \cap (DOMAIN im) |-> Cx(re[i], im[i])]

\* real scalars: eigenvalues, the early return without eigenvectors, and the
\* set-up of the column scan
EigR_Eigenvalues ==
    /\ pc = "eig_post"
    /\ scalar = "real"
    /\ UNCHANGED <<vl, vr>>
    /\ eigs' = EigR_Eigs(eig_re, eig_im)
    /\ IF ~calc_v
       THEN /\ ret' = RetOk(eigs', Empty)
            /\ pc' = "done"
            /\ UNCHANGED <<eigvecs, written, col, scanned>>
       ELSE /\ eigvecs' = Vec(n * n, Cx(0, 0))
            /\ written' = Vec(n * n, 0)
            /\ col' = 0
            /\ scanned' = Empty
            /\ pc' = "eig_scan"
            /\ ret' = ret
    /\ UNCHANGED <<scalar, info, calls, allocs, calc_v, l, n, jobvl, jobvr, work_size,
                   work, eig_re, eig_im, accessed, lsVars>>

\* let v = vr.or(vl).unwrap()
EigR_V == OptOr(vr, vl).data

\* if eig_im[col] == 0.
EigR_IsReal(im, c) == im[c] = 0

\* faulty variant: the assertion is off by one
EigR_PairAssert_mut(c, k) == c < k
\* assert!(col + 1 < n)
EigR_PairAssert(c, k) == c + 1 < k

\* faulty variant: the element is read at the transposed position
EigR_RealElem_mut(v, k, c, row) == Cx(v[c + row * k], 0)
\* real eigenvalue: the element written at (row, col)
EigR_RealElem(v, k, c, row) == Cx(v[row + c * k], 0)

\* faulty variant: the sign is not reversed for the left eigenvectors
EigR_PairIm_mut(v, k, c, row, job) == v[row + (c + 1) * k]
\* conjugate pair: the imaginary part taken from column col + 1, negated
\* for the left eigenvectors
EigR_PairIm(v, k, c, row, job) ==
    LET im == v[row + (c + 1) * k] IN IF job = "Calc" THEN -im ELSE im

\* conjugate pair: the element written at (row, col)
EigR_PairFirst(re, im) == Cx(re, im)

\* faulty variant: the second column is a copy of the first
EigR_PairSecond_mut(re, im) == Cx(re, im)
\* conjugate pair: the element written at (row, col + 1)
EigR_PairSecond(re, im) == Cx(re, -im)

\* faulty variant: the scan always advances by one column
EigR_Advance_mut(c, pair) == c + 1

\* col += 2 behind a conjugate pair, col += 1 behind a real column
EigR_Advance(c, pair) == IF pair THEN c + 2 ELSE c + 1

\* the columns one iteration of the scan reads and writes
EigR_StepCols(c, pair) == IF pair THEN {c, c + 1} ELSE {c}

\* one iteration of `while col < n`
EigR_ScanStep ==
    /\ pc = "eig_scan"
    /\ col < n
    /\ LET v == EigR_V
           rows == 0..(n - 1)
       IN IF EigR_IsReal(eig_im, col)
          THEN /\ eigvecs' = [i \in DOMAIN eigvecs |->
                                IF i \div n = col
                                THEN EigR_RealElem(v, n, col, i % n) ELSE eigvecs[i]]
               /\ written' = [i \in DOMAIN written |->
                                IF i \div n = col THEN written[i] + 1 ELSE written[i]]
               /\ accessed' = accessed \cup EigR_StepCols(col, FALSE)
               /\ scanned' = [j \in (DOMAIN scanned) \cup {col} |->
                                IF j = col THEN "real" ELSE scanned[j]]
               /\ col' = EigR_Advance(col, FALSE)
               /\ pc' = pc
               /\ ret' = ret
          ELSE IF ~EigR_PairAssert(col, n)
          THEN /\ pc' = "done"
               /\ ret' = RetPanic("assert")
               /\ UNCHANGED <<eigvecs, written, accessed, scanned, col>>
          ELSE IF \E c \in EigR_StepCols(col, TRUE) : c * n \notin DOMAIN v
          THEN \* slice indexing is bounds-checked: row 0 of the first column
               \* is read, the read of the missing column panics
               /\ pc' = "done"
               /\ ret' = RetPanic("bounds")
               /\ accessed' = accessed \cup {col}
               /\ UNCHANGED <<eigvecs, written, scanned, col>>
          ELSE /\ eigvecs' = [i \in DOMAIN eigvecs |->
                                IF i \div n = col
                                THEN EigR_PairFirst(v[i], EigR_PairIm(v, n, col, i % n, jobvl))
                                ELSE IF i \div n = col + 1
                                THEN EigR_PairSecond(v[i - n],
                                                     EigR_PairIm(v, n, col, i % n, jobvl))
                                ELSE eigvecs[i]]
               /\ written' = [i \in DOMAIN written |->
                                IF i \div n \in {col, col + 1}
                                THEN written[i] + 1 ELSE written[i]]
               /\ accessed' = accessed \cup EigR_StepCols(col, TRUE)
               /\ scanned' = [j \in (DOMAIN scanned) \cup {col} |->
                                IF j = col THEN "pair" ELSE scanned[j]]
               /\ col' = EigR_Advance(col, TRUE)
               /\ pc' = pc
               /\ ret' = ret
    /\ UNCHANGED <<scalar, info, calls, allocs, calc_v, l, n, jobvl, jobvr, work_size,
                   work, eig_re, eig_im, eigs, vl, vr, lsVars>>

\* the scan is over: eigvecs.assume_init() and Ok((eigs, eigvecs))
EigR_ScanEnd ==
    /\ pc = "eig_scan"
    /\ ~(col < n)
    /\ ret' = RetOk(eigs, eigvecs)
    /\ pc' = "done"
    /\ UNCHANGED <<scalar, info, calls, allocs, calc_v, l, n, jobvl, jobvr, work_size,
                   work, eig_re, eig_im, eigs, vl, vr, eigvecs, written, col, scanned,
                   accessed, lsVars>>

EigNext ==
    \/ \E s \in {"real", "complex"}, cv \in BOOLEAN, lay \in SquareLayouts :
          EigEnter(s, cv, lay)
    \/ EigProbe
    \/ EigAlloc
    \/ EigExecute
    \/ EigC_Return
    \/ EigR_Eigenvalues
    \/ EigR_ScanStep
    \/ EigR_ScanEnd

\* ------------------------------------------------------------ least squares
ALayouts ==
    {LayoutC(m, k) : m \in 1..MaxDim, k \in 1..MaxDim}
        \cup {LayoutF(k, m) : m \in 1..MaxDim, k \in 1..MaxDim}

\* B has fewer rows than A, as many, or more
BLayouts ==
    {LayoutC(m, r) : m \in 1..(MaxDim + 1), r \in 1..MaxRhs}
        \cup {LayoutF(r, m) : m \in 1..(MaxDim + 1), r \in 1..MaxRhs}

\* the buffers a caller hands to calc: pairwise distinct positive elements
InputA(len) == [i \in 0..(len - 1) |-> i + 1]

InputB(len) == [i \in 0..(len - 1) |-> i + 11]

\* transpose: the same logical matrix in the other majorness, in a new vector
transpose(lay, input) ==
    LET m == size(lay)[1]
        k == size(lay)[2]
    IN IF lay.kind = "C"
       THEN [layout |-> LayoutF(k, m),
             data |-> [x \in 0..(m * k - 1) |-> input[(x % m) * k + (x \div m)]]]
       ELSE [layout |-> LayoutC(m, k),
             data |-> [x \in 0..(m * k - 1) |-> input[(x % k) * m + (x \div k)]]]

\* transpose_over: `from`, described by lay, written over `to` in the other
\* majorness
transpose_over(lay, from, to) ==
    LET m == size(lay)[1]
        k == size(lay)[2]
    IN IF lay.kind = "C"
       THEN [x \in DOMAIN to |-> from[(x % m) * k + (x \div m)]]
       ELSE [x \in DOMAIN to |-> from[(x % k) * m + (x \div k)]]

\* *gelsd rejects a leading dimension of B below max(1, m, n) as an illegal
\* argument (its argument 7) before it does anything else
GelsdStatus(m, k, ldb) == IF ldb < Max(m, k) THEN {-7} ELSE KernelStatus

\* what the probe writes in work_size[0], iwork_size[0] and rwork[0]
GelsdSizes(ws) == [work |-> ws, iwork |-> ws + MaxWork, rwork |-> ws + 2 * MaxWork]

\* what the execute call writes: A is destroyed, B holds the solution, s the
\* singular values in descending order; kernel-written elements of A and B are
\* negative, so they differ from every element a caller supplied
Seeds == {1, 2}

GelsdAOut(len) == [i \in 0..(len - 1) |-> -(i + 1)]

GelsdBOut(len, seed) == [i \in 0..(len - 1) |-> -(10 * seed + i)]

GelsdSOut(len, seed) == [i \in 0..(len - 1) |-> seed + len - i]

\* the kernel writes the lda * n (ldb * nrhs) elements its dimension arguments
\* describe, from the pointer it is handed; what lies behind them stays
GelsdWrite(buf, out) ==
    [i \in DOMAIN buf |-> IF i \in DOMAIN out THEN out[i] ELSE buf[i]]

\* a kernel invocation as the kernel sees it; op is the number of the calc
\* call (0 for new)
GelsdCall(phase, abuf, a_in, bbuf, b_in, lwork, status, out) ==
    [fn |-> "gelsd", phase |-> phase, op |-> ncalc,
     m |-> size(lsw.a_layout)[1], n |-> size(lsw.a_layout)[2],
     nrhs |-> size(lsw.b_layout)[2],
     a |-> abuf, a_in |-> a_in, lda |-> size(lsw.a_layout)[1],
     b |-> bbuf, b_in |-> b_in, ldb |-> size(lsw.b_layout)[1],
     lwork |-> lwork, info |-> status, out |-> out]

\* faulty variant: B must have exactly as many rows as A
LsAssertRows_mut(m_, m) == m_ = m

\* assert!(m_ >= m)
LsAssertRows(m_, m) == m_ >= m

\* new, up to the probe: the assertion and the singular-value vector; lsw
\* holds the arguments a_layout and b_layout from the entry on
LsNewEnter(s, al, bl) ==
    /\ pc = "idle"
    /\ scalar' = s
    /\ LET m == size(al)[1]
           k == Min(size(al)[1], size(al)[2])
           m_ == size(bl)[1]
       IN IF ~LsAssertRows(m_, m)
          THEN /\ pc' = "done"
               /\ ret' = RetPanic("assert")
               /\ lsw' = [NoWork EXCEPT !.a_layout = al, !.b_layout = bl]
          ELSE /\ pc' = "ls_probe"
               /\ ret' = ret
               /\ lsw' = [NoWork EXCEPT !.a_layout = al, !.b_layout = bl,
                                        !.singular_values.data = Vec(k, 0)]
    /\ UNCHANGED <<info, work_size, calls, allocs, eigVars, iwork_size, rwork_size,
                   a, b, a_t, b_t, rank, ncalc, by_eval>>

\* faulty variant: the status of the probe is not looked at
LsProbeOk_mut(status) == TRUE

\* info.as_lapack_result()? after the probe: TRUE when new goes on
LsProbeOk(status) == as_lapack_result(status) = "Ok"

\* new: the probe, with null A and B and work length -1
LsNewProbe ==
    /\ pc = "ls_probe"
    /\ \E status \in GelsdStatus(size(lsw.a_layout)[1], size(lsw.a_layout)[2],
                                  size(lsw.b_layout)[1]),
          ws \in WorkSizes :
        /\ calls' = Append(calls, GelsdCall("probe", "null", Empty, "null", Empty, -1,
                                            status,
                                            IF status = 0 THEN GelsdSizes(ws) ELSE Empty))
        /\ info' = status
        /\ work_size' = IF status = 0 THEN GelsdSizes(ws).work ELSE work_size
        /\ iwork_size' = IF status = 0 THEN GelsdSizes(ws).iwork ELSE iwork_size
        /\ rwork_size' = IF status = 0 /\ scalar = "complex"
                         THEN GelsdSizes(ws).rwork ELSE rwork_size
        /\ IF LsProbeOk(status)
           THEN pc' = "ls_alloc" /\ ret' = ret
           ELSE pc' = "done" /\ ret' = RetErr(status)
    /\ UNCHANGED <<scalar, allocs, eigVars, lsw, a, b, a_t, b_t, rank, ncalc, by_eval>>

\* let lwork = work_size[0].to_usize().unwrap() and the like
LsLwork(ws) == ws

LsLiwork(ws) == ws

LsLrwork(ws) == ws

\* new: the scratch vectors and the work object
LsNewAlloc ==
    /\ pc = "ls_alloc"
    /\ lsw' = [lsw EXCEPT !.work = LsLwork(work_size),
                          !.iwork = LsLiwork(iwork_size),
                          !.rwork = IF scalar = "complex"
                                    THEN [some |-> TRUE, len |-> LsLrwork(rwork_size)]
                                    ELSE [some |-> FALSE, len |-> 0]]
    /\ allocs' = Append(allocs, LsLwork(work_size))
    /\ ret' = [NoRet EXCEPT !.kind = "Ok"]
    /\ pc' = "ls_ready"
    /\ UNCHANGED <<scalar, info, work_size, calls, eigVars, iwork_size, rwork_size,
                   a, b, a_t, b_t, rank, ncalc, by_eval>>

\* faulty variant: a is never copied
LsTransposedA_mut(lay, buf) == None
\* "Transpose if a is C-continuous": Some(copy) for a row-major layout
LsTransposedA(lay, buf) ==
    IF lay.kind = "C"
    THEN [some |-> TRUE, init |-> TRUE, data |-> transpose(lay, buf).data]
    ELSE None

\* "Transpose if b is C-continuous"
LsTransposedB(lay, buf) ==
    IF lay.kind = "C"
    THEN [some |-> TRUE, init |-> TRUE, data |-> transpose(lay, buf).data]
    ELSE None

\* the local b_layout of calc: the layout of the buffer the kernel gets
LsKernelBLayout(lay, buf) == IF lay.kind = "C" THEN transpose(lay, buf).layout ELSE lay

\* the length assertion of transpose: the input has as many elements as the
\* layout describes
transposeLenOk(lay, input) == VLen(input) = size(lay)[1] * size(lay)[2]

\* the transposes calc makes go through: only a row-major layout reaches
\* transpose, a column-major buffer is taken as it is
LsTransposesOk(al, abuf, bl, bbuf) ==
    /\ al.kind = "C" => transposeLenOk(al, abuf)
    /\ bl.kind = "C" => transposeLenOk(bl, bbuf)

\* calc (directly, or through eval) on the caller's buffers abuf and bbuf, up
\* to the kernel call
LsCalc(ev, abuf, bbuf) ==
    /\ pc = "ls_ready"
    /\ ncalc < MaxCalcs
    /\ ncalc' = ncalc + 1
    /\ by_eval' = ev
    /\ LET m == size(lsw.a_layout)[1]
           m_ == size(lsw.b_layout)[1]
       IN /\ a' = abuf
          /\ b' = bbuf
          /\ IF ~LsAssertRows(m_, m)
             THEN /\ pc' = "done"
                  /\ ret' = RetPanic("assert")
                  /\ UNCHANGED <<a_t, b_t>>
             ELSE IF ~LsTransposesOk(lsw.a_layout, abuf, lsw.b_layout, bbuf)
             THEN /\ pc' = "done"
                  /\ ret' = RetPanic("assert_eq")
                  /\ UNCHANGED <<a_t, b_t>>
             ELSE /\ pc' = "ls_exec"
                  /\ ret' = NoRet
                  /\ a_t' = LsTransposedA(lsw.a_layout, abuf)
                  /\ b_t' = LsTransposedB(lsw.b_layout, bbuf)
    /\ rank' = 0
    /\ calls' = SelectSeq(calls, LAMBDA c : c.phase = "probe")
    /\ UNCHANGED <<scalar, info, work_size, allocs, eigVars, iwork_size,
                   rwork_size, lsw>>

\* calc on buffers that have the shape the work object was built for
LsCalcEnter(ev) ==
    LsCalc(ev, InputA(size(lsw.a_layout)[1] * size(lsw.a_layout)[2]),
               InputB(size(lsw.b_layout)[1] * size(lsw.b_layout)[2]))

\* how many elements too long a caller's buffer may be
ExtraLens == {0, 1}

\* calc on buffers that may be longer than the layouts describe
LsCalcAnyShape(ev, da, db) ==
    LsCalc(ev, InputA(size(lsw.a_layout)[1] * size(lsw.a_layout)[2] + da),
               InputB(size(lsw.b_layout)[1] * size(lsw.b_layout)[2] + db))

\* faulty variant: the declared work length is one more than the vector holds
LsCalcLwork_mut(len) == len + 1

\* let lwork = self.work.len().to_i32().unwrap()
LsCalcLwork(len) == len

\* faulty variant: the kernel is always handed the caller's buffer
LsKernelArg_mut(opt, copy, own) == own

\* a_t.as_mut().map(|v| v.as_mut_slice()).unwrap_or(a): which buffer the
\* kernel is handed
LsKernelArg(opt, copy, own) == IF opt.some THEN copy ELSE own

\* info.as_lapack_result()? after the execute call: TRUE when calc goes on
LsExecOk(status) == as_lapack_result(status) = "Ok"

\* calc: the execute call and its status check.  The kernel writes into the
\* buffers it is handed; when it fails it may or may not have written.
LsExecute ==
    /\ pc = "ls_exec"
    /\ \E status \in GelsdStatus(size(lsw.a_layout)[1], size(lsw.a_layout)[2],
                                  size(lsw.b_layout)[1]),
          seed \in Seeds, wrote \in BOOLEAN,
          r \in 0..Min(size(lsw.a_layout)[1], size(lsw.a_layout)[2]) :
        /\ status = 0 => wrote
        /\ status # 0 => (seed = 1 /\ r = 0)
        /\ LET abuf == LsKernelArg(a_t, "a_t", "a")
               bbuf == LsKernelArg(b_t, "b_t", "b")
               a_in == LsKernelArg(a_t, a_t.data, a)
               b_in == LsKernelArg(b_t, b_t.data, b)
               a_out == GelsdWrite(a_in, GelsdAOut(size(lsw.a_layout)[1]
                                                    * size(lsw.a_layout)[2]))
               b_out == GelsdWrite(b_in, GelsdBOut(size(lsw.b_layout)[1]
                                                    * size(lsw.b_layout)[2], seed))
               s_out == GelsdSOut(VLen(lsw.singular_values.data), seed)
           IN /\ calls' = Append(calls,
                     GelsdCall("exec", abuf, a_in, bbuf, b_in, LsCalcLwork(lsw.work),
                               status,
                               IF wrote
                               THEN [a |-> a_out, b |-> b_out, s |-> s_out, rank |-> r]
                               ELSE Empty))
              /\ a' = IF wrote /\ abuf = "a" THEN a_out ELSE a
              /\ a_t' = IF wrote /\ abuf = "a_t" THEN [a_t EXCEPT !.data = a_out] ELSE a_t
              /\ b' = IF wrote /\ bbuf = "b" THEN b_out ELSE b
              /\ b_t' = IF wrote /\ bbuf = "b_t" THEN [b_t EXCEPT !.data = b_out] ELSE b_t
              /\ lsw' = IF wrote
                        THEN [lsw EXCEPT !.singular_values = [init |-> TRUE, data |-> s_out]]
                        ELSE lsw
              /\ rank' = IF wrote THEN r ELSE rank
        /\ info' = status
        /\ IF LsExecOk(status)
           THEN pc' = "ls_post" /\ ret' = ret
           ELSE /\ pc' = IF by_eval THEN "done" ELSE "ls_ready"
                /\ ret' = RetErr(status)
    /\ UNCHANGED <<scalar, work_size, allocs, eigVars, iwork_size, rwork_size, ncalc,
                   by_eval>>

\* faulty variant: the solution is left in the temporary
LsRetransposeB_mut(opt, lay, to) == to

\* "Re-transpose b": if let Some(b_t) = b_t { transpose_over(b_layout, &b_t, b) }
LsRetransposeB(opt, lay, to) ==
    IF opt.some THEN transpose_over(lay, opt.data, to) ELSE to

\* calc after a successful execute call: "Re-transpose b" and the result
LsCalcReturn ==
    /\ pc = "ls_post"
    /\ b' = LsRetransposeB(b_t, LsKernelBLayout(lsw.b_layout, b), b)
    /\ ret' = RetLs(lsw.singular_values.data, rank)
    /\ pc' = IF by_eval THEN "ls_eval" ELSE "ls_ready"
    /\ UNCHANGED <<scalar, info, work_size, calls, allocs, eigVars, iwork_size,
                   rwork_size, lsw, a, a_t, b_t, rank, ncalc, by_eval>>

\* eval after calc returned Ok: the singular values move out of the work
\* object, which is consumed
LsEvalReturn ==
    /\ pc = "ls_eval"
    /\ ret' = RetLs(lsw.singular_values.data, ret.rank)
    /\ pc' = "done"
    /\ UNCHANGED <<scalar, info, work_size, calls, allocs, eigVars, lsVars>>

LsNext ==
    \/ \E s \in {"real", "complex"}, al \in ALayouts, bl \in BLayouts :
          LsNewEnter(s, al, bl)
    \/ LsNewProbe
    \/ LsNewAlloc
    \/ \E ev \in BOOLEAN : LsCalcEnter(ev)
    \/ LsExecute
    \/ LsCalcReturn
    \/ LsEvalReturn

Next == EigNext \/ LsNext

Spec == Init /\ [][Next]_vars

\* eig alone; the call is synchronous straight-line code, so a loop iteration
\* that can run does run, and so does the return behind the loop
SpecEigFair ==
    /\ Init
    /\ [][EigNext]_vars
    /\ WF_vars(EigR_ScanStep)
    /\ WF_vars(EigR_ScanEnd)

\* least squares with callers that may hand calc a buffer of another length
\* than the work object was built for
LsNextAnyShape ==
    \/ \E s \in {"real", "complex"}, al \in ALayouts, bl \in BLayouts :
          LsNewEnter(s, al, bl)
    \/ LsNewProbe
    \/ LsNewAlloc
    \/ \E ev \in BOOLEAN, da \in ExtraLens, db \in ExtraLens : LsCalcAnyShape(ev, da, db)
    \/ LsExecute
    \/ LsCalcReturn
    \/ LsEvalReturn

SpecAnyShape == Init /\ [][LsNextAnyShape]_vars

\* ==================================================================== claims
\* the kernel invocations of the running eig call
IsGeev(i) == i \in 1..Len(calls) /\ calls[i].fn = "geev"

\* an eig call whose execute call succeeded; its second invocation holds what
\* the kernel wrote
EigExecuted == Len(calls) = 2 /\ calls[2].fn = "geev" /\ calls[2].info = 0

Conj(z) == Cx(z.re, -z.im)

\* C1: in eig the job flags handed to the kernel depend on (calc_v, layout)
\* only: row-major with calc_v asks for the left eigenvectors alone,
\* column-major with calc_v for the right ones alone, no calc_v for neither;
\* never both, and the probe and the execute call get the same flags.
C1_JobFlags ==
    \A i \in 1..Len(calls) :
        calls[i].fn = "geev" =>
            /\ calls[i].jobvl = (IF calc_v /\ l.kind = "C" THEN "Calc" ELSE "Not")
            /\ calls[i].jobvr = (IF calc_v /\ l.kind = "F" THEN "Calc" ELSE "Not")
            /\ ~(calls[i].jobvl = "Calc" /\ calls[i].jobvr = "Calc")
            /\ calls[i].jobvl = calls[1].jobvl
            /\ calls[i].jobvr = calls[1].jobvr

C1_Witness ==
    /\ Len(calls) = 2
    /\ calls[2].fn = "geev"
    /\ calls[2].phase = "exec"
    /\ calc_v
    /\ l.kind = "C"
    /\ calls[2].jobvl = "Calc"

\* C2: within one eig call the probe (work length -1) completes first, the
\* scratch vector is then allocated with exactly the length the probe wrote,
\* and only then the execute call runs, with that length as its declared work
\* length; no execute call without a successful probe before it.
C2_ProbeAllocExecute ==
    /\ \A i \in 1..Len(calls) :
          (calls[i].fn = "geev" /\ calls[i].phase = "exec") =>
              /\ i = 2
              /\ calls[1].phase = "probe"
              /\ calls[1].lwork = -1
              /\ calls[1].info = 0
              /\ Len(allocs) = 1
              /\ allocs[1] = calls[1].out
              /\ calls[i].lwork = allocs[1]
    /\ (Len(allocs) > 0 /\ IsGeev(1)) =>
          /\ calls[1].phase = "probe"
          /\ calls[1].info = 0
          /\ allocs[1] = calls[1].out
          /\ work = allocs[1]
    /\ (IsGeev(1) /\ calls[1].phase = "probe" /\ Len(allocs) = 0) => work = -1

C2_Witness ==
    /\ Len(calls) = 2
    /\ calls[2].fn = "geev"
    /\ calls[2].phase = "exec"
    /\ calls[1].out = MaxWork
    /\ calls[2].lwork = MaxWork

\* C3: a non-zero kernel status is returned to the caller as a failure and is
\* never retried: nothing is invoked after it in the same operation, a failed
\* probe (eig, LeastSquaresWork::new) ends the operation before any execute
\* call, a failed execute call returns the failure with no eigenvalues,
\* eigenvectors, singular values or rank; an operation invokes the kernel at
\* most once as a probe and at most once as an execute call.
C3_FailureReturnedNoRetry ==
    /\ \A i \in 1..Len(calls) :
          calls[i].info # 0 =>
              /\ i = Len(calls)
              /\ ret.kind = "Err"
              /\ ret.code = calls[i].info
              /\ ret.eigs = Empty
              /\ ret.vecs = Empty
              /\ ret.singular_values = Empty
              /\ ret.rank = 0
              /\ pc \in {"done", "ls_ready"}
              /\ calls[i].phase = "probe" => pc = "done"
    /\ Cardinality({i \in 1..Len(calls) : calls[i].phase = "probe"}) <= 1
    /\ Cardinality({i \in 1..Len(calls) : calls[i].phase = "exec"}) <= 1

C3_Witness ==
    /\ Len(calls) = 2
    /\ calls[2].phase = "exec"
    /\ calls[2].info > 0
    /\ ret.kind = "Err"
    /\ ret.code = calls[2].info

\* C4: real scalars: the returned eigenvalues are n complex numbers, the i-th
\* built from the i-th entries of the kernel's two arrays, in the kernel's
\* order, for both layouts and both values of calc_v.
C4_Eigenvalues ==
    (pc = "done" /\ scalar = "real" /\ ret.kind = "Ok" /\ EigExecuted) =>
        /\ DOMAIN ret.eigs = 0..(n - 1)
        /\ \A i \in 0..(n - 1) :
              ret.eigs[i] = Cx(calls[2].out.wr[i], calls[2].out.wi[i])

C4_Witness ==
    /\ pc = "done"
    /\ scalar = "real"
    /\ ret.kind = "Ok"
    /\ EigExecuted
    /\ calc_v
    /\ l.kind = "C"
    /\ n = MaxN
    /\ calls[2].out.wr[0] > calls[2].out.wr[1]
    /\ ret.eigs[0].im = -1
    /\ ret.eigs[1].im = 1

\* the columns at which the scan found a conjugate pair, or a real eigenvalue
PairStarts == {j \in DOMAIN scanned : scanned[j] = "pair"}

RealCols == {j \in DOMAIN scanned : scanned[j] = "real"}

\* C5: real scalars with eigenvectors: whenever the scan treats columns
\* (j, j+1) as a conjugate pair, every row of reconstructed column j+1 is the
\* conjugate of the same row of column j, in both layouts.
C5_PairIsConjugate ==
    \A j \in PairStarts : \A row \in 0..(n - 1) :
        /\ eigvecs[row + (j + 1) * n] = Conj(eigvecs[row + j * n])
        /\ (pc = "done" /\ ret.kind = "Ok") =>
              ret.vecs[row + (j + 1) * n] = Conj(ret.vecs[row + j * n])

C5_Witness ==
    /\ pc = "done"
    /\ ret.kind = "Ok"
    /\ l.kind = "F"
    /\ n = MaxN
    /\ PairStarts = {1}
    /\ ret.vecs[n] # Conj(ret.vecs[n])

\* C6: real scalars: for a conjugate pair at columns (j, j+1) of the kernel's
\* real output V, reconstructed column j is V[:,j] + i*V[:,j+1] for a
\* column-major layout and V[:,j] - i*V[:,j+1] for a row-major one.
C6_PairFirstColumn ==
    \A j \in PairStarts : \A row \in 0..(n - 1) :
        LET V == calls[2].out.v
            expected == Cx(V[row + j * n],
                           IF l.kind = "F" THEN V[row + (j + 1) * n]
                                           ELSE -V[row + (j + 1) * n])
        IN /\ eigvecs[row + j * n] = expected
           /\ (pc = "done" /\ ret.kind = "Ok") => ret.vecs[row + j * n] = expected

C6_Witness ==
    /\ pc = "done"
    /\ ret.kind = "Ok"
    /\ l.kind = "C"
    /\ n = MaxN
    /\ PairStarts = {0}
    /\ ret.vecs[0] = Cx(calls[2].out.v[0], -calls[2].out.v[n])

\* C7: real scalars: a scanned column j whose eigenvalue has zero imaginary
\* part is column j of the kernel's real output with imaginary part zero in
\* every row, in both layouts.
C7_RealColumn ==
    \A j \in RealCols : \A row \in 0..(n - 1) :
        LET expected == Cx(calls[2].out.v[row + j * n], 0)
        IN /\ calls[2].out.wi[j] = 0
           /\ eigvecs[row + j * n] = expected
           /\ (pc = "done" /\ ret.kind = "Ok") => ret.vecs[row + j * n] = expected

C7_Witness ==
    /\ pc = "done"
    /\ ret.kind = "Ok"
    /\ l.kind = "C"
    /\ n = MaxN
    /\ RealCols = {0}
    /\ ret.vecs[1].re < 0

\* C8: complex scalars: the returned eigenvectors are the kernel's output with
\* every imaginary component negated exactly when the left eigenvectors were
\* computed (row-major, calc_v); real components and right eigenvectors are
\* as the kernel wrote them, and so are the eigenvalues.
C8_ComplexConjugation ==
    (pc = "done" /\ scalar = "complex" /\ ret.kind = "Ok" /\ EigExecuted) =>
        /\ ret.eigs = calls[2].out.w
        /\ calc_v =>
              /\ DOMAIN ret.vecs = 0..(n * n - 1)
              /\ \A i \in 0..(n * n - 1) :
                    /\ ret.vecs[i].re = calls[2].out.v[i].re
                    /\ ret.vecs[i].im = IF l.kind = "C" THEN -calls[2].out.v[i].im
                                                        ELSE calls[2].out.v[i].im
        /\ ~calc_v => ret.vecs = Empty

C8_Witness ==
    /\ pc = "done"
    /\ scalar = "complex"
    /\ ret.kind = "Ok"
    /\ EigExecuted
    /\ calc_v
    /\ l.kind = "C"
    /\ n = MaxN
    /\ ret.vecs[1].im = -calls[2].out.v[1].im
    /\ ret.vecs[1].im > 0

\* C9: real scalars with eigenvectors: when the scan is at the last column
\* and its eigenvalue has a non-zero imaginary part, the call stops with the
\* assertion failure, returning neither an error value nor a result, and no
\* column of index n is ever read or written.
C9_LastColumnPairPanics ==
    /\ [](accessed \subseteq 0..(n - 1))
    /\ [][(pc = "eig_scan" /\ col = n - 1 /\ eig_im[col] # 0) =>
            /\ pc' = "done"
            /\ ret'.kind = "panic"
            /\ ret'.panic = "assert"
            /\ accessed' = accessed
            /\ written' = written]_vars

C9_Witness ==
    /\ pc = "done"
    /\ ret.kind = "panic"
    /\ ret.panic = "assert"
    /\ EigExecuted
    /\ n = MaxN
    /\ col = n - 1
    /\ PairStarts = {0}

\* C10: in calc, independently for A and B: for a row-major layout the kernel
\* gets a freshly allocated column-major vector holding the transpose of the
\* caller's buffer; for a column-major layout it gets the caller's own buffer
\* and no copy is made.
C10_KernelBuffers ==
    \A i \in 1..Len(calls) :
        (calls[i].fn = "gelsd" /\ calls[i].phase = "exec") =>
            LET c == calls[i]
                m == size(lsw.a_layout)[1]
                k == size(lsw.a_layout)[2]
                m_ == size(lsw.b_layout)[1]
                nrhs == size(lsw.b_layout)[2]
            IN /\ IF lsw.a_layout.kind = "C"
                  THEN /\ c.a = "a_t"
                       /\ a_t.some
                       /\ DOMAIN c.a_in = 0..(m * k - 1)
                       /\ \A r \in 0..(m - 1), j \in 0..(k - 1) :
                             c.a_in[r + j * m] = InputA(m * k)[r * k + j]
                  ELSE /\ c.a = "a"
                       /\ ~a_t.some
                       /\ c.a_in = InputA(m * k)
               /\ IF lsw.b_layout.kind = "C"
                  THEN /\ c.b = "b_t"
                       /\ b_t.some
                       /\ DOMAIN c.b_in = 0..(m_ * nrhs - 1)
                       /\ \A r \in 0..(m_ - 1), j \in 0..(nrhs - 1) :
                             c.b_in[r + j * m_] = InputB(m_ * nrhs)[r * nrhs + j]
                  ELSE /\ c.b = "b"
                       /\ ~b_t.some
                       /\ c.b_in = InputB(m_ * nrhs)

C10_Witness ==
    /\ Len(calls) = 2
    /\ calls[2].fn = "gelsd"
    /\ calls[2].phase = "exec"
    /\ lsw.a_layout = LayoutC(MaxDim, MaxDim)
    /\ lsw.b_layout.kind = "F"
    /\ calls[2].a = "a_t"
    /\ calls[2].b = "b"
    /\ calls[2].a_in # InputA(MaxDim * MaxDim)


\* a calc call whose execute call succeeded and which has returned
LsCalcSucceeded ==
    /\ Len(calls) = 2
    /\ calls[2].fn = "gelsd"
    /\ calls[2].phase = "exec"
    /\ calls[2].info = 0
    /\ pc \in {"ls_ready", "ls_eval", "done"}
    /\ ret.kind = "Ok"

\* C11: after a successful calc the caller's b holds the kernel's solution
\* output in the caller's layout: for a row-major B, element (i, j) of the
\* kernel's column-major output is at the row-major position (i, j) of b; for
\* a column-major B, b is what the kernel wrote in place.  A's transposed
\* copy is never transposed back: a row-major a is as the caller passed it.
C11_SolutionInCallersLayout ==
    LsCalcSucceeded =>
        LET m == size(lsw.a_layout)[1]
            k == size(lsw.a_layout)[2]
            m_ == size(lsw.b_layout)[1]
            nrhs == size(lsw.b_layout)[2]
            X == calls[2].out.b
        IN /\ DOMAIN b = 0..(m_ * nrhs - 1)
           /\ IF lsw.b_layout.kind = "C"
              THEN \A i \in 0..(m_ - 1), j \in 0..(nrhs - 1) :
                      b[i * nrhs + j] = X[i + j * m_]
              ELSE b = X
           /\ lsw.a_layout.kind = "C" => a = InputA(m * k)

C11_Witness ==
    /\ LsCalcSucceeded
    /\ lsw.b_layout = LayoutC(MaxDim, MaxRhs)
    /\ lsw.a_layout.kind = "C"
    /\ b[1] = calls[2].out.b[MaxDim]
    /\ b # calls[2].out.b


\* the work object exists: new has returned it
LsBuilt == pc \in {"ls_ready", "ls_exec", "ls_post", "ls_eval"} \/ (pc = "done" /\ ncalc > 0)

\* C12: least squares: the lengths of work, iwork and (complex scalars) rwork
\* are all read from the outputs of the one probe made in new, and the
\* vectors have those lengths before any execute call; no execute call is
\* made on a work object whose probe failed, and there is no second probe.
C12_OneProbeSizesAll ==
    /\ Cardinality({i \in 1..Len(calls) :
                      calls[i].fn = "gelsd" /\ calls[i].phase = "probe"}) <= 1
    /\ (LsBuilt \/ \E i \in 1..Len(calls) :
                      calls[i].fn = "gelsd" /\ calls[i].phase = "exec") =>
          /\ Len(calls) >= 1
          /\ calls[1].phase = "probe"
          /\ calls[1].lwork = -1
          /\ calls[1].info = 0
          /\ lsw.work = calls[1].out.work
          /\ lsw.iwork = calls[1].out.iwork
          /\ IF scalar = "complex"
             THEN lsw.rwork.some /\ lsw.rwork.len = calls[1].out.rwork
             ELSE ~lsw.rwork.some
          /\ \A i \in 2..Len(calls) :
                calls[i].phase = "exec" /\ calls[i].lwork = calls[1].out.work

C12_Witness ==
    /\ scalar = "complex"
    /\ Len(calls) = 2
    /\ calls[2].fn = "gelsd"
    /\ calls[2].phase = "exec"
    /\ ncalc = MaxCalcs
    /\ lsw.work = MaxWork
    /\ lsw.iwork > lsw.work
    /\ lsw.rwork.len > lsw.iwork


\* the parts of a work object that new fixes: the layouts and the lengths
LsShape(w) ==
    [a_layout |-> w.a_layout, b_layout |-> w.b_layout,
     singular_values |-> DOMAIN w.singular_values.data,
     work |-> w.work, iwork |-> w.iwork, rwork |-> w.rwork]

\* C13: a work object is reused without reallocation: through any sequence of
\* calc calls, successful or failed, its layouts and the lengths of
\* singular_values, work, iwork and rwork stay as new fixed them, the
\* singular-value vector has min(rows, cols) of A elements, and every calc
\* passes the kernel the same dimensions and the same declared work length.
C13_WorkObjectReused ==
    /\ [][LsBuilt => LsShape(lsw') = LsShape(lsw)]_vars
    /\ [](LsBuilt =>
            /\ DOMAIN lsw.singular_values.data =
                  0..(Min(size(lsw.a_layout)[1], size(lsw.a_layout)[2]) - 1)
            /\ lsw.work = allocs[1]
            /\ \A i \in 1..Len(calls) :
                  /\ calls[i].m = size(lsw.a_layout)[1]
                  /\ calls[i].n = size(lsw.a_layout)[2]
                  /\ calls[i].nrhs = size(lsw.b_layout)[2]
                  /\ calls[i].lda = calls[1].lda
                  /\ calls[i].ldb = calls[1].ldb
                  /\ calls[i].phase = "exec" =>
                        /\ calls[i].lwork = lsw.work
                        /\ calls[i].info = 0 =>
                              DOMAIN calls[i].out.s = DOMAIN lsw.singular_values.data)

C13_Witness ==
    /\ ncalc = MaxCalcs
    /\ pc = "ls_ready"
    /\ Len(calls) = 2
    /\ calls[2].info # 0
    /\ calls[2].op = MaxCalcs
    /\ lsw.singular_values.init
    /\ lsw.a_layout = LayoutC(1, MaxDim)
    /\ lsw.work = MaxWork


\* the caller's buffers have the shape of the layouts the work object holds
LsShapesMatch ==
    /\ VLen(a) = size(lsw.a_layout)[1] * size(lsw.a_layout)[2]
    /\ VLen(b) = size(lsw.b_layout)[1] * size(lsw.b_layout)[2]

\* C14: a calc call whose a or b buffer does not have the shape of the layouts
\* the work object was built for stops with an assertion failure before the
\* kernel is invoked: calc never stands at or behind the execute call with such
\* a buffer, and no execute call is handed one.
C14_WrongShapeAsserts ==
    /\ pc \in {"ls_exec", "ls_post", "ls_eval"} => LsShapesMatch
    /\ \A i \in 1..Len(calls) :
          (calls[i].fn = "gelsd" /\ calls[i].phase = "exec") =>
              /\ VLen(calls[i].a_in) = calls[i].m * calls[i].n
              /\ VLen(calls[i].b_in) = calls[i].ldb * calls[i].nrhs


\* the last kernel invocation is the execute call of the running (or last)
\* operation and returned status 0
LastExecOk(fn) ==
    /\ Len(calls) = 2
    /\ calls[2].fn = fn
    /\ calls[2].phase = "exec"
    /\ calls[2].info = 0

\* C15: no uninitialized element is observable.  eig is behind its status check
\* (where the buffers are taken as initialized) and returns eigenvalues or
\* eigenvectors only when its execute call returned 0, and then every buffer it
\* reads was written by the kernel and every returned eigenvector element was
\* written by the scan; calc and eval are behind their status check and return
\* singular values only when the execute call of that same calc returned 0, and
\* then they are the ones that call wrote; a failure returns none of them.
C15_NoUninitObservable ==
    /\ (pc \in {"eig_post", "eig_scan"} \/ ret.eigs # Empty \/ ret.vecs # Empty) =>
          /\ LastExecOk("geev")
          /\ vl.some => vl.init
          /\ vr.some => vr.init
          /\ ret.eigs # Empty =>
                /\ DOMAIN ret.eigs = 0..(n - 1)
                /\ scalar = "real" => ret.eigs = EigR_Eigs(calls[2].out.wr, calls[2].out.wi)
                /\ scalar = "complex" => ret.eigs = calls[2].out.w
          /\ (ret.vecs # Empty /\ scalar = "real") =>
                /\ DOMAIN ret.vecs = 0..(n * n - 1)
                /\ \A i \in DOMAIN ret.vecs : written[i] >= 1
    /\ (pc \in {"ls_post", "ls_eval"} \/ ret.singular_values # Empty) =>
          /\ LastExecOk("gelsd")
          /\ calls[2].op = ncalc
          /\ lsw.singular_values.init
          /\ lsw.singular_values.data = calls[2].out.s
          /\ ret.singular_values # Empty => ret.singular_values = calls[2].out.s
    /\ ret.kind \in {"Err", "panic"} =>
          /\ ret.eigs = Empty
          /\ ret.vecs = Empty
          /\ ret.singular_values = Empty

C15_Witness ==
    /\ pc = "done"
    /\ ret.kind = "Ok"
    /\ scalar = "real"
    /\ calc_v
    /\ n = MaxN
    /\ ret.vecs # Empty
    /\ \E j \in DOMAIN scanned : scanned[j] = "pair"


\* the scan over the imaginary parts im from column c, told without the
\* scan's variables: TRUE when no conjugate pair starts at the last column
RECURSIVE NoPairAtLastColumn(_, _, _)
NoPairAtLastColumn(im, c, k) ==
    IF c >= k THEN TRUE
    ELSE IF im[c] = 0 THEN NoPairAtLastColumn(im, c + 1, k)
    ELSE c + 1 < k /\ NoPairAtLastColumn(im, c + 2, k)

\* the eig call on real scalars with eigenvectors has come back from a
\* successful execute call
EigR_ScanOver == pc = "done" /\ scalar = "real" /\ calc_v /\ EigExecuted

\* C17: the column scan on real scalars advances by 2 on a conjugate pair and
\* by 1 otherwise; it always ends, and when no pair starts at the last column
\* it ends with the index equal to n, Ok, and each of the n*n elements of the
\* output written exactly once; a column starts a pair exactly when the
\* imaginary part at that column is not 0, whatever the next one is.
C17_ScanAdvance ==
    /\ [][(pc = "eig_scan" /\ col' # col) =>
            col' = col + (IF eig_im[col] # 0 THEN 2 ELSE 1)]_vars
    /\ [](pc = "eig_scan" =>
            \A j \in DOMAIN scanned : (scanned[j] = "pair") <=> (eig_im[j] # 0))
    /\ [](EigR_ScanOver =>
            /\ (ret.kind = "Ok") <=> NoPairAtLastColumn(eig_im, 0, n)
            /\ ret.kind = "Ok" =>
                  /\ col = n
                  /\ DOMAIN ret.vecs = 0..(n * n - 1)
                  /\ \A i \in 0..(n * n - 1) : written[i] = 1)
    /\ (pc = "eig_scan") ~> (pc = "done")

\* a pair at column 0 whose partner has imaginary part 0, then a real column
C17_Witness ==
    /\ EigR_ScanOver
    /\ ret.kind = "Ok"
    /\ n = MaxN
    /\ col = n
    /\ eig_im[0] # 0
    /\ eig_im[1] = 0
    /\ scanned[0] = "pair"
    /\ 1 \notin DOMAIN scanned


\* the row counts of A and B in the layouts handed to new
LsRowsA == size(lsw.a_layout)[1]

LsRowsB == size(lsw.b_layout)[1]

\* a least-squares operation ended in a panic
LsPanicked ==
    /\ ret.kind = "panic"
    /\ \A i \in 1..Len(calls) : calls[i].fn = "gelsd"

\* C18: new and calc stop with an assertion failure, before any kernel call,
\* exactly when B has fewer rows than A.  Every pair of layouts in which B has
\* as many rows as A or more goes on to the probe, and every kernel call, probe
\* or execute, gets A's row count as lda and B's row count as ldb.
C18_RowAssertion ==
    /\ [][(pc = "idle" /\ pc' # "eig_probe") =>
            IF size(lsw'.b_layout)[1] < size(lsw'.a_layout)[1]
            THEN pc' = "done" /\ ret' = RetPanic("assert") /\ calls' = <<>>
            ELSE pc' = "ls_probe" /\ ret'.kind # "panic"]_vars
    /\ [][(pc \in {"ls_probe", "ls_exec"}) =>
            /\ Len(calls') = Len(calls) + 1
            /\ calls'[Len(calls')].fn = "gelsd"
            /\ calls'[Len(calls')].lda = LsRowsA
            /\ calls'[Len(calls')].ldb = LsRowsB]_vars
    /\ [][(pc = "ls_ready" /\ ncalc' = ncalc + 1) =>
            pc' = "ls_exec" /\ ret'.kind # "panic"]_vars
    /\ [](LsRowsB < LsRowsA => pc = "done" /\ ret.kind = "panic" /\ calls = <<>>)
    /\ [](LsPanicked => LsRowsB < LsRowsA /\ calls = <<>> /\ ncalc = 0)
    /\ [](\A i \in 1..Len(calls) :
            calls[i].fn = "gelsd" =>
                /\ LsRowsB >= LsRowsA
                /\ calls[i].lda = LsRowsA
                /\ calls[i].ldb = LsRowsB)

\* B has strictly more rows than A and the execute call was made and succeeded
C18_Witness ==
    /\ LsRowsB > LsRowsA
    /\ LastExecOk("gelsd")
    /\ calls[2].lda = LsRowsA
    /\ calls[2].ldb = LsRowsB
    /\ pc = "ls_ready"
    /\ ret.kind = "Ok"


\* the buffers the caller handed to the running (or last) calc
LsCallerA == InputA(size(lsw.a_layout)[1] * size(lsw.a_layout)[2])

LsCallerB == InputB(size(lsw.b_layout)[1] * size(lsw.b_layout)[2])

\* the execute call of the running (or last) calc wrote into its buffers
LsKernelWrote ==
    /\ ncalc > 0
    /\ Len(calls) = 2
    /\ calls[2].phase = "exec"
    /\ calls[2].out # Empty

\* C19: calc leaves a caller's row-major a as it was in every outcome, and a
\* caller's row-major b as it was unless it returns Ok (then b is what the
\* transpose-back wrote); no step of the execute call touches a row-major
\* buffer of the caller.  A column-major buffer is the one the kernel wrote:
\* it holds the kernel's output as soon as the kernel has written.
C19_CallerBuffersFrame ==
    /\ [](ncalc > 0 =>
            /\ lsw.a_layout.kind = "C" => a = LsCallerA
            /\ (lsw.b_layout.kind = "C" /\ ret.kind # "Ok") => b = LsCallerB
            /\ (lsw.b_layout.kind = "C" /\ ret.kind = "Err") =>
                  /\ calls[Len(calls)].info # 0
                  /\ b = LsCallerB)
    /\ [][pc = "ls_exec" =>
            /\ lsw.a_layout.kind = "C" => a' = a
            /\ lsw.b_layout.kind = "C" => b' = b]_vars
    /\ [][(pc = "ls_post" /\ lsw.a_layout.kind = "C") => a' = a]_vars
    /\ [](LsKernelWrote =>
            /\ lsw.a_layout.kind = "F" => (a = calls[2].out.a /\ a # LsCallerA)
            /\ lsw.b_layout.kind = "F" => (b = calls[2].out.b /\ b # LsCallerB)
            /\ lsw.a_layout.kind = "C" => a_t.data = calls[2].out.a
            /\ lsw.b_layout.kind = "C" => b_t.data = calls[2].out.b)

\* a failed execute call that had written: both row-major buffers of the
\* caller are as they were, the copies hold what the kernel wrote
C19_Witness ==
    /\ LsKernelWrote
    /\ calls[2].info # 0
    /\ ret.kind = "Err"
    /\ lsw.a_layout = LayoutC(MaxDim, MaxDim)
    /\ lsw.b_layout.kind = "C"
    /\ a = LsCallerA
    /\ b = LsCallerB
    /\ a_t.data = calls[2].out.a
    /\ a_t.data # transpose(lsw.a_layout, a).data
    /\ b_t.data = calls[2].out.b

====
